---------------------------- MODULE Spec2Model ----------------------------
(***************************************************************************)
(* A model of the resolution and templating engine of the `ran` launcher:  *)
(* alias-chain resolution (launcher.rs), app lookup (launcher.rs),         *)
(* recursive runner resolution (app.rs), the argument sandwich and the     *)
(* bounded variable expander (utils.rs, helpers.rs).                       *)
(*                                                                         *)
(* Rust `String`s are sequences of one-character strings, so that          *)
(* trimming, splitting and the placeholder scan are computed, not assumed. *)
(* `HashMap<String, String>` is a function whose domain is the key set.    *)
(***************************************************************************)
EXTENDS Integers, Sequences, FiniteSets, TLC

VARIABLES
    pc,             \* position of the running operation
    interactive,    \* Config.interactive
    editor,         \* Config.editor (Option<String>: <<>> is None, <<s>> is Some(s))
    alias,          \* Config.alias
    vars,           \* Config.vars
    env,            \* Config.env
    apps,           \* Launcher.apps: app name -> path of its definition
    defs,           \* the definition files: path -> App
    atty,           \* whether stdout is a terminal (atty::is)
    start_key,      \* resolve_alias_chain: argument
    chain,          \* resolve_alias_chain: local `chain`
    current,        \* resolve_alias_chain: local `current`
    parent,         \* sandwich_args: argument
    child,          \* sandwich_args: argument
    text,           \* expand_vars: argument
    current_text,   \* expand_vars: local `current_text`
    new_text,       \* expand_vars: local `new_text` of the last pass
    passes,         \* expand_vars: number of passes of the `for` loop performed
    query,          \* find_app / launch_app: argument
    frames,         \* resolve_recursive: the apps whose call is awaiting its runner
    parts,          \* resolve_recursive: local `parts`
    ret,            \* where the resolution returns to once it has its parts
    cli_args,       \* launch_app: argument
    cli_env,        \* launch_app: argument
    background,     \* launch_app: argument
    intermediate_args,  \* launch_app: local `intermediate_args`
    final_bin,      \* launch_app: local `final_bin`
    final_args,     \* launch_app: local `final_args`
    final_env,      \* launch_app: local `final_env`
    spawned,        \* the commands handed to the operating system, in order
    argv,           \* the subcommand of the last run of the program
    stdout,         \* what the last run of the program printed
    result          \* what the operation returned

cfgVars   == <<interactive, editor, alias, vars, env>>
indexVars == <<apps, defs, atty>>
aliasVars == <<start_key, chain, current>>
sandVars  == <<parent, child>>
expVars   == <<text, current_text, new_text, passes>>
resVars   == <<query, frames, parts>>
launchVars == <<ret, cli_args, cli_env, background, intermediate_args,
                final_bin, final_args, final_env, spawned>>
cliVars   == <<argv, stdout>>
vars_all  == <<pc, cfgVars, indexVars, aliasVars, sandVars, expVars, resVars,
               launchVars, cliVars, result>>

-----------------------------------------------------------------------------
(* Bounds of the model. *)

\* number of distinct names the alias maps are drawn over
NAliasKeys == 3

-----------------------------------------------------------------------------
(* Strings and maps. *)

Letters == <<"a", "b", "c", "d", "e", "f">>

\* the one-letter name number i
Name(i) == <<Letters[i]>>

\* Vec::contains / slice::contains
Contains(seq, x) == \E i \in 1..Len(seq) : seq[i] = x

\* the value of a variable no operation of the running specification uses
Unused == <<>>

\* Result values: Ok(v) and Err(LauncherError::...)
Ok(v) == [kind |-> "Ok", val |-> v]
CircularAlias(c) == [kind |-> "CircularAlias", val |-> c]
NoResult == [kind |-> "None", val |-> <<>>]

\* all HashMaps with keys among K and values among V
Maps(K, V) == UNION { [D -> V] : D \in SUBSET K }

EmptyMap == [x \in {} |-> <<>>]

\* the variables of launch_app when another operation runs
NoLaunch ==
    /\ ret = "done"
    /\ cli_args = Unused /\ cli_env = Unused /\ background = FALSE
    /\ intermediate_args = Unused
    /\ final_bin = Unused /\ final_args = Unused /\ final_env = Unused
    /\ spawned = <<>>

\* the variables of the subcommands of main.rs when another operation runs
NoCli == argv = Unused /\ stdout = <<>>


-----------------------------------------------------------------------------
(* Launcher::resolve_alias_chain (launcher.rs 28-43), one loop iteration   *)
(* per step.                                                               *)

\* faulty variant: the key is appended before the membership test
AliasIterationPushFirst(al, ch, cur) ==
    IF cur \in DOMAIN al
    THEN LET next == al[cur]
             pushed == Append(ch, next)
         IN  IF Contains(pushed, next)
             THEN [chain |-> pushed, current |-> cur, pc |-> "done",
                   result |-> CircularAlias(pushed)]
             ELSE [chain |-> pushed, current |-> next, pc |-> "alias_loop",
                   result |-> NoResult]
    ELSE [chain |-> ch, current |-> cur, pc |-> "done", result |-> Ok(ch)]

\* faulty variant: the error carries the chain without the key that closes the cycle
AliasIterationNoClosingKey(al, ch, cur) ==
    IF cur \in DOMAIN al
    THEN LET next == al[cur]
         IN  IF Contains(ch, next)
             THEN [chain |-> ch, current |-> cur, pc |-> "done",
                   result |-> CircularAlias(ch)]
             ELSE [chain |-> Append(ch, next), current |-> next,
                   pc |-> "alias_loop", result |-> NoResult]
    ELSE [chain |-> ch, current |-> cur, pc |-> "done", result |-> Ok(ch)]

\* one evaluation of the `while let` head and, if it matches, of the body
AliasIteration(al, ch, cur) ==
    IF cur \in DOMAIN al
    THEN LET next == al[cur]
         IN  IF Contains(ch, next)
             THEN [chain |-> Append(ch, next), current |-> cur, pc |-> "done",
                   result |-> CircularAlias(Append(ch, next))]
             ELSE [chain |-> Append(ch, next), current |-> next,
                   pc |-> "alias_loop", result |-> NoResult]
    ELSE [chain |-> ch, current |-> cur, pc |-> "done", result |-> Ok(ch)]

AliasNames == { Name(i) : i \in 1..NAliasKeys }

InitAlias ==
    /\ pc = "resolve_alias_chain"
    /\ alias \in Maps(AliasNames, AliasNames)
    /\ start_key \in AliasNames
    /\ chain = Unused /\ current = Unused
    /\ interactive = TRUE /\ editor = <<>>
    /\ vars = EmptyMap /\ env = EmptyMap
    /\ apps = EmptyMap /\ defs = EmptyMap /\ atty = FALSE
    /\ parent = Unused /\ child = Unused
    /\ text = Unused /\ current_text = Unused /\ new_text = Unused /\ passes = 0
    /\ query = Unused /\ frames = Unused /\ parts = Unused
    /\ NoLaunch /\ NoCli
    /\ result = NoResult

\* lines 29-30
ResolveAliasChainEnter ==
    /\ pc = "resolve_alias_chain"
    /\ chain' = <<start_key>>
    /\ current' = start_key
    /\ pc' = "alias_loop"
    /\ UNCHANGED <<cliVars, start_key, cfgVars, launchVars, indexVars, sandVars,
                   expVars, resVars, result>>

\* lines 34-42
ResolveAliasChainLoop ==
    /\ pc = "alias_loop"
    /\ LET r == AliasIteration(alias, chain, current)
       IN  /\ chain' = r.chain
           /\ current' = r.current
           /\ pc' = r.pc
           /\ result' = r.result
    /\ UNCHANGED <<cliVars, start_key, cfgVars, launchVars, indexVars, sandVars,
                   expVars, resVars>>

NextAlias == ResolveAliasChainEnter \/ ResolveAliasChainLoop

SpecAlias == InitAlias /\ [][NextAlias]_vars_all

\* the call runs to completion: nothing but the loop itself can stop it
SpecAliasFair == SpecAlias /\ WF_vars_all(NextAlias)

(* Reachability in the alias map, computed independently of the resolver. *)

\* the keys reachable from k in one or more alias hops
RECURSIVE AliasClosure(_, _)
AliasClosure(al, S) ==
    LET T == S \cup { al[x] : x \in S \cap DOMAIN al }
    IN  IF T = S THEN S ELSE AliasClosure(al, T)

AliasReachPlus(al, k) ==
    IF k \in DOMAIN al THEN AliasClosure(al, {al[k]}) ELSE {}

\* a cycle is reachable from k: following the map from k never leaves it
CyclicFrom(al, k) ==
    \E x \in {k} \cup AliasReachPlus(al, k) : x \in AliasReachPlus(al, x)

IsAliasPath(al, ch, k) ==
    /\ Len(ch) >= 1
    /\ ch[1] = k
    /\ \A i \in 1..(Len(ch) - 1) : ch[i] \in DOMAIN al /\ ch[i + 1] = al[ch[i]]

Distinct(seq) == \A i, j \in 1..Len(seq) : i # j => seq[i] # seq[j]

\* C1: with no alias cycle reachable from the start key, resolve_alias_chain
\* terminates, and it returns Ok(chain) where chain starts at the start key,
\* each element is the alias target of the one before, and the last element
\* is not a key of the alias map.
C1_AcyclicChainOk ==
    /\ [](pc = "done" /\ ~CyclicFrom(alias, start_key) =>
            /\ result.kind = "Ok"
            /\ result.val = chain
            /\ IsAliasPath(alias, result.val, start_key)
            /\ result.val[Len(result.val)] \notin DOMAIN alias)
    /\ (pc = "resolve_alias_chain" /\ ~CyclicFrom(alias, start_key)) ~> (pc = "done")

C1_Witness ==
    /\ pc = "done"
    /\ ~CyclicFrom(alias, start_key)
    /\ result.kind = "Ok"
    /\ Len(result.val) = 3

\* C2: with an alias cycle reachable from the start key, resolve_alias_chain
\* terminates, and it fails with CircularAlias(chain) where chain follows the
\* map from the start key, its last element repeats an earlier one and the
\* elements before the last are pairwise distinct.
C2_CyclicChainErr ==
    /\ [](pc = "done" /\ CyclicFrom(alias, start_key) =>
            /\ result.kind = "CircularAlias"
            /\ IsAliasPath(alias, result.val, start_key)
            /\ Len(result.val) >= 2
            /\ Contains(SubSeq(result.val, 1, Len(result.val) - 1),
                        result.val[Len(result.val)])
            /\ Distinct(SubSeq(result.val, 1, Len(result.val) - 1)))
    /\ (pc = "resolve_alias_chain" /\ CyclicFrom(alias, start_key)) ~> (pc = "done")

C2_Witness ==
    /\ pc = "done"
    /\ result.kind = "CircularAlias"
    /\ result.val = <<Name(1), Name(2), Name(1)>>

-----------------------------------------------------------------------------
(* sandwich_args (utils.rs 87-108, helpers.rs 85-106).                     *)

\* the injection marker "%!"
Marker == <<"%", "!">>

\* Iterator::position: the first index whose element satisfies arg == "%!",
\* 0 for None
RECURSIVE PositionFrom(_, _)
PositionFrom(seq, i) ==
    IF i > Len(seq) THEN 0
    ELSE IF seq[i] = Marker THEN i
    ELSE PositionFrom(seq, i + 1)

Position(seq) == PositionFrom(seq, 1)

\* faulty variant: the last marker is taken instead of the first
RECURSIVE PositionBack(_, _)
PositionBack(seq, i) ==
    IF i < 1 THEN 0
    ELSE IF seq[i] = Marker THEN i
    ELSE PositionBack(seq, i - 1)

SandwichArgsLastMarker(p, c) ==
    LET pos == PositionBack(p, Len(p))
    IN  IF pos # 0
        THEN SubSeq(p, 1, pos - 1) \o c \o SubSeq(p, pos + 1, Len(p))
        ELSE p \o c

\* utils.rs
SandwichArgs(p, c) ==
    LET pos == Position(p)
    IN  IF pos # 0
        THEN SubSeq(p, 1, pos - 1) \o c \o SubSeq(p, pos + 1, Len(p))
        ELSE p \o c

\* helpers.rs
SandwichArgsHelpers(p, c) ==
    LET pos == Position(p)
    IN  IF pos # 0
        THEN SubSeq(p, 1, pos - 1) \o c \o SubSeq(p, pos + 1, Len(p))
        ELSE p \o c

\* longest parent and child argument lists drawn
MaxParentLen == 3
MaxChildLen == 2

\* the arguments drawn: the marker, two plain arguments, and one that only
\* contains the marker
ArgPool == { Marker, <<"x">>, <<"y">>, <<"%", "!", "x">> }

SeqsUpTo(S, n) == UNION { [1..k -> S] : k \in 0..n }

InitSandwich ==
    /\ pc = "sandwich_args"
    /\ parent \in SeqsUpTo(ArgPool, MaxParentLen)
    /\ child \in SeqsUpTo(ArgPool, MaxChildLen)
    /\ interactive = TRUE /\ editor = <<>>
    /\ alias = EmptyMap /\ vars = EmptyMap /\ env = EmptyMap
    /\ apps = EmptyMap /\ defs = EmptyMap /\ atty = FALSE
    /\ start_key = Unused /\ chain = Unused /\ current = Unused
    /\ text = Unused /\ current_text = Unused /\ new_text = Unused /\ passes = 0
    /\ query = Unused /\ frames = Unused /\ parts = Unused
    /\ NoLaunch /\ NoCli
    /\ result = NoResult

\* a call of the utils.rs function
SandwichArgsCall ==
    /\ pc = "sandwich_args"
    /\ result' = Ok(SandwichArgs(parent, child))
    /\ pc' = "done"
    /\ UNCHANGED <<cliVars, cfgVars, launchVars, indexVars, aliasVars, sandVars,
                   expVars, resVars>>

\* a call of the helpers.rs function
SandwichArgsHelpersCall ==
    /\ pc = "sandwich_args"
    /\ result' = Ok(SandwichArgsHelpers(parent, child))
    /\ pc' = "done"
    /\ UNCHANGED <<cliVars, cfgVars, launchVars, indexVars, aliasVars, sandVars,
                   expVars, resVars>>

NextSandwich == SandwichArgsCall \/ SandwichArgsHelpersCall

SpecSandwich == InitSandwich /\ [][NextSandwich]_vars_all

CountMarkers(seq) == Cardinality({ i \in 1..Len(seq) : seq[i] = Marker })

\* C3: whichever variant ran, the result is parent ++ child when no element of
\* parent equals "%!"; otherwise it is the elements before the first such
\* element, then child, then the elements after it, so that one marker of
\* parent is dropped and its later markers stay; and both variants give it.
C3_SandwichFirstMarker ==
    pc = "done" =>
        /\ result.val = SandwichArgs(parent, child)
        /\ result.val = SandwichArgsHelpers(parent, child)
        /\ (\A i \in 1..Len(parent) : parent[i] # Marker) =>
               result.val = parent \o child
        /\ \A p \in 1..Len(parent) :
               (parent[p] = Marker /\ \A q \in 1..(p - 1) : parent[q] # Marker) =>
                   /\ result.val = SubSeq(parent, 1, p - 1) \o child
                                     \o SubSeq(parent, p + 1, Len(parent))
                   /\ CountMarkers(result.val) =
                          CountMarkers(parent) - 1 + CountMarkers(child)

C3_Witness ==
    /\ pc = "done"
    /\ parent = <<(<<"x">>), Marker, Marker>>
    /\ child = <<(<<"y">>)>>
    /\ result.val = <<(<<"x">>), (<<"y">>), Marker>>

-----------------------------------------------------------------------------
(* expand_vars (utils.rs 112-166).                                         *)

\* the bound of `for _ in 0..5`
MaxPasses == 5

\* Option<String>
None == <<>>
Some(v) == <<v>>

\* HashMap::get(k).cloned()
Get(m, k) == IF k \in DOMAIN m THEN Some(m[k]) ELSE None

\* str::split(sep): the segments between the separators, empty ones kept
RECURSIVE SplitFrom(_, _, _, _)
SplitFrom(s, sep, i, seg) ==
    IF i > Len(s) THEN <<seg>>
    ELSE IF s[i] = sep THEN <<seg>> \o SplitFrom(s, sep, i + 1, <<>>)
    ELSE SplitFrom(s, sep, i + 1, Append(seg, s[i]))

Split(s, sep) == SplitFrom(s, sep, 1, <<>>)

s_config == <<"c", "o", "n", "f", "i", "g">>
s_interactive == <<"i", "n", "t", "e", "r", "a", "c", "t", "i", "v", "e">>
s_editor == <<"e", "d", "i", "t", "o", "r">>
s_alias == <<"a", "l", "i", "a", "s">>
s_vars == <<"v", "a", "r", "s">>
s_env == <<"e", "n", "v">>
s_true == <<"t", "r", "u", "e">>
s_false == <<"f", "a", "l", "s", "e">>

\* bool::to_string
BoolToString(b) == IF b THEN s_true ELSE s_false

\* faulty variant: the fallback arm takes the last segment of any key
ResolveKeyLastSegment(full_key) ==
    LET segs == Split(full_key, ".")
    IN  IF Len(segs) = 2 /\ segs[1] = s_config /\ segs[2] = s_interactive
            THEN Some(BoolToString(interactive))
        ELSE IF Len(segs) = 2 /\ segs[1] = s_config /\ segs[2] = s_editor
            THEN editor
        ELSE IF Len(segs) = 3 /\ segs[1] = s_config /\ segs[2] = s_alias
            THEN Get(alias, segs[3])
        ELSE IF Len(segs) = 3 /\ segs[1] = s_config /\ segs[2] = s_vars
            THEN Get(vars, segs[3])
        ELSE IF Len(segs) = 3 /\ segs[1] = s_config /\ segs[2] = s_env
            THEN Get(env, segs[3])
        ELSE Get(vars, segs[Len(segs)])

\* faulty variant: the env arm reads the vars map
ResolveKeyEnvFromVars(full_key) ==
    LET segs == Split(full_key, ".")
    IN  IF Len(segs) = 2 /\ segs[1] = s_config /\ segs[2] = s_interactive
            THEN Some(BoolToString(interactive))
        ELSE IF Len(segs) = 2 /\ segs[1] = s_config /\ segs[2] = s_editor
            THEN editor
        ELSE IF Len(segs) = 3 /\ segs[1] = s_config /\ segs[2] = s_alias
            THEN Get(alias, segs[3])
        ELSE IF Len(segs) = 3 /\ segs[1] = s_config /\ segs[2] \in {s_vars, s_env}
            THEN Get(vars, segs[3])
        ELSE IF Len(segs) = 1
            THEN Get(vars, segs[1])
        ELSE None

\* the `match parts.as_slice()` of the replacement closure (lines 119-157)
ResolveKey(full_key) ==
    LET segs == Split(full_key, ".")
    IN  IF Len(segs) = 2 /\ segs[1] = s_config /\ segs[2] = s_interactive
            THEN Some(BoolToString(interactive))
        ELSE IF Len(segs) = 2 /\ segs[1] = s_config /\ segs[2] = s_editor
            THEN editor
        ELSE IF Len(segs) = 3 /\ segs[1] = s_config /\ segs[2] = s_alias
            THEN Get(alias, segs[3])
        ELSE IF Len(segs) = 3 /\ segs[1] = s_config /\ segs[2] = s_vars
            THEN Get(vars, segs[3])
        ELSE IF Len(segs) = 3 /\ segs[1] = s_config /\ segs[2] = s_env
            THEN Get(env, segs[3])
        ELSE IF Len(segs) = 1
            THEN Get(vars, segs[1])
        ELSE None

\* faulty variant: a span without a resolution is replaced by nothing
ReplacementErased(full_key) ==
    LET resolved == ResolveKey(full_key)
    IN  IF resolved # None THEN resolved[1] ELSE <<>>

\* resolved.unwrap_or_else(|| format!("%{}%", full_key)) (line 159)
Replacement(full_key) ==
    LET resolved == ResolveKey(full_key)
    IN  IF resolved # None THEN resolved[1]
        ELSE <<"%">> \o full_key \o <<"%">>

\* the index of the first "%" of t at or after i, 0 when there is none
RECURSIVE NextPercent(_, _)
NextPercent(t, i) ==
    IF i > Len(t) THEN 0
    ELSE IF t[i] = "%" THEN i
    ELSE NextPercent(t, i + 1)

\* Regex::new(r"%([^%]+)%") with replace_all: the leftmost non-overlapping
\* matches, scanning from index i. A "%" directly followed by "%" opens no
\* match, and the scan goes on at the second one.
RECURSIVE ReplaceAllFrom(_, _)
ReplaceAllFrom(t, i) ==
    IF i > Len(t) THEN <<>>
    ELSE IF t[i] # "%" THEN <<t[i]>> \o ReplaceAllFrom(t, i + 1)
    ELSE LET j == NextPercent(t, i + 1)
         IN  IF j = 0 THEN SubSeq(t, i, Len(t))
             ELSE IF j = i + 1 THEN <<"%">> \o ReplaceAllFrom(t, i + 1)
             ELSE Replacement(SubSeq(t, i + 1, j - 1)) \o ReplaceAllFrom(t, j + 1)

ReplaceAll(t) == ReplaceAllFrom(t, 1)

\* faulty variant: a single pass, whatever it changed
ExpandIterationOnePass(cur, n) ==
    LET new == ReplaceAll(cur)
    IN  [new_text |-> new, current_text |-> new, passes |-> n + 1,
         pc |-> "done", result |-> Ok(new)]

\* faulty variant: no early exit at a fixed point
ExpandIterationNoBreak(cur, n) ==
    LET new == ReplaceAll(cur)
    IN  IF n + 1 < MaxPasses
        THEN [new_text |-> new, current_text |-> new, passes |-> n + 1,
              pc |-> "expand_loop", result |-> NoResult]
        ELSE [new_text |-> new, current_text |-> new, passes |-> n + 1,
              pc |-> "done", result |-> Ok(new)]

\* one iteration of the `for` loop (lines 116-164), and the return (line 165)
\* when it is the last one
ExpandIteration(cur, n) ==
    LET new == ReplaceAll(cur)
    IN  IF new = cur
        THEN [new_text |-> new, current_text |-> cur, passes |-> n + 1,
              pc |-> "done", result |-> Ok(cur)]
        ELSE IF n + 1 < MaxPasses
        THEN [new_text |-> new, current_text |-> new, passes |-> n + 1,
              pc |-> "expand_loop", result |-> NoResult]
        ELSE [new_text |-> new, current_text |-> new, passes |-> n + 1,
              pc |-> "done", result |-> Ok(new)]

\* longest text drawn over TextAlphabet
MaxTextLen == 3

TextAlphabet == { "%", "a", "b", "." }

s_foo == <<"f", "o", "o">>
s_bar == <<"b", "a", "r">>
s_final == <<"f", "i", "n", "a", "l">>

\* "%" key "%"
Placeholder(key) == <<"%">> \o key \o <<"%">>

\* "config." map "." k
ConfigKey(map, k) == s_config \o <<".">> \o map \o <<".">> \o k

\* "vars." k
VarsKey(k) == s_vars \o <<".">> \o k

\* a name with a dot in it
s_a_b == <<"a", ".", "b">>

\* the longer texts drawn besides the short ones
NamedTexts ==
    { Placeholder(s_foo), Placeholder(VarsKey(s_foo)),
      Placeholder(ConfigKey(s_vars, s_foo)),
      Placeholder(VarsKey(Name(1))), Placeholder(ConfigKey(s_vars, Name(1))),
      Placeholder(ConfigKey(s_alias, Name(1))),
      Placeholder(ConfigKey(s_env, Name(1))),
      Placeholder(s_config \o <<".">> \o s_interactive),
      Placeholder(s_config \o <<".">> \o s_editor),
      Marker,
      Placeholder(s_a_b), Placeholder(ConfigKey(s_vars, s_a_b)),
      Placeholder(s_config \o <<".">> \o Name(1)),
      Placeholder(ConfigKey(s_alias, Name(2))),
      Placeholder(Name(2)) \o Placeholder(Name(1)) }

Texts == SeqsUpTo(TextAlphabet, MaxTextLen) \cup NamedTexts

\* the values of the variables a and b drawn: a literal, references to a and
\* b in the bare, the "vars." and the "config.vars." form, and a value that
\* grows on every pass
VarValues ==
    { s_final, Placeholder(Name(1)), Placeholder(Name(2)),
      Placeholder(VarsKey(Name(2))), Placeholder(ConfigKey(s_vars, Name(2))),
      <<"x">> \o Placeholder(Name(1)) }

FooBar == [k \in {s_foo} |-> s_bar]

\* a variable whose name has a dot in it, as `var set a.b final` makes it
DottedVars == [k \in {s_a_b, Name(1)} |-> IF k = s_a_b THEN s_final ELSE s_bar]

VarMaps == Maps({Name(1), Name(2)}, VarValues) \cup {FooBar, DottedVars}

InitExpand ==
    /\ pc = "expand_vars"
    /\ text \in Texts
    /\ vars \in VarMaps
    /\ alias = [k \in {Name(1)} |-> <<"t">>]
    /\ env = [k \in {Name(1)} |-> <<"e">>]
    /\ interactive = TRUE
    /\ editor = Some(<<"v", "i">>)
    /\ current_text = Unused /\ new_text = Unused /\ passes = 0
    /\ apps = EmptyMap /\ defs = EmptyMap /\ atty = FALSE
    /\ start_key = Unused /\ chain = Unused /\ current = Unused
    /\ parent = Unused /\ child = Unused
    /\ query = Unused /\ frames = Unused /\ parts = Unused
    /\ NoLaunch /\ NoCli
    /\ result = NoResult

\* lines 113-114
ExpandVarsEnter ==
    /\ pc = "expand_vars"
    /\ current_text' = text
    /\ pc' = "expand_loop"
    /\ UNCHANGED <<cliVars, text, new_text, passes, cfgVars, launchVars,
                   indexVars, aliasVars, sandVars, resVars, result>>

\* lines 116-165
ExpandVarsPass ==
    /\ pc = "expand_loop"
    /\ passes < MaxPasses
    /\ LET r == ExpandIteration(current_text, passes)
       IN  /\ new_text' = r.new_text
           /\ current_text' = r.current_text
           /\ passes' = r.passes
           /\ pc' = r.pc
           /\ result' = r.result
    /\ UNCHANGED <<cliVars, text, cfgVars, launchVars, indexVars, aliasVars,
                   sandVars, resVars>>

NextExpand == ExpandVarsEnter \/ ExpandVarsPass

SpecExpand == InitExpand /\ [][NextExpand]_vars_all

\* C4 as stated: "%vars.foo%" with vars = {foo: bar} yields "bar".
C4_Original ==
    (pc = "done" /\ vars = FooBar /\ text = Placeholder(VarsKey(s_foo))) =>
        result.val = s_bar

\* C4, amended: with vars = {foo: bar}, "%foo%" and "%config.vars.foo%" yield
\* "bar", and "%vars.foo%" is returned as it is.
C4_FooExpands ==
    (pc = "done" /\ vars = FooBar) =>
        /\ text \in { Placeholder(s_foo), Placeholder(ConfigKey(s_vars, s_foo)) } =>
               result = Ok(s_bar)
        /\ text = Placeholder(VarsKey(s_foo)) => result = Ok(text)

C4_Witness ==
    /\ pc = "done"
    /\ vars = FooBar
    /\ text = Placeholder(ConfigKey(s_vars, s_foo))
    /\ result = Ok(s_bar)

IsPlaceholderFor(t, k) ==
    t \in { Placeholder(k), Placeholder(ConfigKey(s_vars, k)) }

TwoLevel(m) ==
    /\ DOMAIN m = {Name(1), Name(2)}
    /\ m[Name(2)] = s_final

\* C5 as stated: with a = "%vars.b%" and b = "final", the placeholder for a
\* yields "final".
C5_Original ==
    (/\ pc = "done"
     /\ TwoLevel(vars)
     /\ vars[Name(1)] = Placeholder(VarsKey(Name(2)))
     /\ IsPlaceholderFor(text, Name(1))) =>
        result.val = s_final

\* C5, amended: with b = "final" and a = "%b%" or "%config.vars.b%", the
\* placeholder for a is the value of a after the first pass and "final" after
\* the second, which is returned after three passes of the five; with
\* a = "%vars.b%" the text returned is "%vars.b%".
C5_TwoLevelExpands ==
    (TwoLevel(vars) /\ IsPlaceholderFor(text, Name(1))) =>
        /\ IsPlaceholderFor(vars[Name(1)], Name(2)) =>
               /\ (pc = "expand_loop" /\ passes = 1) => current_text = vars[Name(1)]
               /\ (pc = "expand_loop" /\ passes = 2) => current_text = s_final
               /\ pc = "done" => (result = Ok(s_final) /\ passes = 3)
        /\ (vars[Name(1)] = Placeholder(VarsKey(Name(2))) /\ pc = "done") =>
               result = Ok(Placeholder(VarsKey(Name(2))))

C5_Witness ==
    /\ pc = "done"
    /\ TwoLevel(vars)
    /\ vars[Name(1)] = Placeholder(Name(2))
    /\ text = Placeholder(Name(1))
    /\ result = Ok(s_final)
    /\ passes = 3

\* C6: expand_vars terminates for every text and every config: before the
\* return a further pass is always possible, each pass counts, and there are
\* at least one and at most 5 of them; a pass that leaves the text unchanged is the last
\* one; the text returned is the text after the last pass performed; and with
\* a = "%a%" the text "%a%" is returned unchanged after one pass.
C6_BoundedPasses ==
    /\ [](/\ passes <= MaxPasses
          /\ pc \in {"expand_vars", "expand_loop", "done"}
          /\ pc = "expand_loop" => passes < MaxPasses
          /\ pc = "done" =>
                 /\ passes >= 1
                 /\ result = Ok(new_text)
          /\ (/\ pc = "done"
              /\ text = Placeholder(Name(1))
              /\ Get(vars, Name(1)) = Some(Placeholder(Name(1)))) =>
                 (passes = 1 /\ result = Ok(text)))
    /\ [][/\ pc = "expand_loop" => passes' = passes + 1
          /\ (pc = "expand_loop" /\ ReplaceAll(current_text) = current_text) =>
                 (pc' = "done" /\ result' = Ok(current_text))]_vars_all

\* the bound is reached: mutually referential variables, five changing passes
C6_Witness ==
    /\ pc = "done"
    /\ passes = MaxPasses
    /\ text = Placeholder(Name(1))
    /\ Get(vars, Name(1)) = Some(Placeholder(Name(2)))
    /\ Get(vars, Name(2)) = Some(Placeholder(Name(1)))
    /\ result = Ok(Placeholder(Name(2)))

HasPrefix(s, pre) == Len(pre) <= Len(s) /\ SubSeq(s, 1, Len(pre)) = pre

\* the name K when key is prefix followed by K and K has no dot in it
Under(key, prefix) ==
    IF HasPrefix(key, prefix) /\ ~Contains(SubSeq(key, Len(prefix) + 1, Len(key)), ".")
    THEN Some(SubSeq(key, Len(prefix) + 1, Len(key)))
    ELSE None

\* the value a key stands for, by the shapes of the namespace: the two
\* preferences, "config.<map>.K" and the bare "K", K being one segment
Expected(key) ==
    IF key = s_config \o <<".">> \o s_interactive THEN Some(BoolToString(interactive))
    ELSE IF key = s_config \o <<".">> \o s_editor THEN editor
    ELSE IF Under(key, ConfigKey(s_alias, <<>>)) # None
        THEN Get(alias, Under(key, ConfigKey(s_alias, <<>>))[1])
    ELSE IF Under(key, ConfigKey(s_vars, <<>>)) # None
        THEN Get(vars, Under(key, ConfigKey(s_vars, <<>>))[1])
    ELSE IF Under(key, ConfigKey(s_env, <<>>)) # None
        THEN Get(env, Under(key, ConfigKey(s_env, <<>>))[1])
    ELSE IF ~Contains(key, ".") THEN Get(vars, key)
    ELSE None

\* the text is one placeholder: "%", a key without "%" and not empty, "%"
OnePlaceholder(t) ==
    /\ Len(t) >= 3
    /\ t[1] = "%" /\ t[Len(t)] = "%"
    /\ ~Contains(SubSeq(t, 2, Len(t) - 1), "%")

KeyOfText(t) == SubSeq(t, 2, Len(t) - 1)

\* the key is one segment, or "config.alias.", "config.vars." or "config.env."
\* and one segment
MapKeyShape(key) ==
    \/ ~Contains(key, ".")
    \/ Under(key, ConfigKey(s_alias, <<>>)) # None
    \/ Under(key, ConfigKey(s_vars, <<>>)) # None
    \/ Under(key, ConfigKey(s_env, <<>>)) # None

NoSpanResolves(t) ==
    \A i \in 1..Len(t) : \A j \in (i + 2)..Len(t) :
        (/\ t[i] = "%" /\ t[j] = "%"
         /\ ~Contains(SubSeq(t, i + 1, j - 1), "%")) =>
            Expected(SubSeq(t, i + 1, j - 1)) = None

\* C19: a text none of whose spans stands for a value is returned as it is
\* after one pass, the "%" of its spans included; so are "%%" and the other
\* texts made of "%" alone; and in "%b%%a%" with a = "final" and b not set,
\* "%b%" is kept in front of "final".
C19_UnresolvedVerbatim ==
    pc = "done" =>
        /\ NoSpanResolves(text) => (result = Ok(text) /\ passes = 1)
        /\ (\A i \in 1..Len(text) : text[i] = "%") => result = Ok(text)
        /\ (/\ text = Placeholder(Name(2)) \o Placeholder(Name(1))
            /\ Name(2) \notin DOMAIN vars
            /\ Get(vars, Name(1)) = Some(s_final)) =>
               result = Ok(Placeholder(Name(2)) \o s_final)

C19_Witness ==
    /\ pc = "done"
    /\ text = Placeholder(Name(2)) \o Placeholder(Name(1))
    /\ DOMAIN vars = {Name(1)}
    /\ vars[Name(1)] = s_final
    /\ result = Ok(<<"%", "b", "%", "f", "i", "n", "a", "l">>)
    /\ passes = 2

-----------------------------------------------------------------------------
(* Launcher::find_app (launcher.rs 46-82) and app_resolver (utils.rs       *)
(* 55-84).                                                                 *)

\* deepest nesting of calls the stack of the process holds: a call that
\* would nest deeper never returns (the process dies of stack exhaustion)
MaxDepth == 6

AppNotFound(q) == [kind |-> "AppNotFound", val |-> q]
AmbiguousQuery(q, paths) == [kind |-> "AmbiguousQuery", val |-> <<q, paths>>]
Other(msg) == [kind |-> "Other", val |-> <<msg>>]
\* not a value: the call does not return
StackOverflow == [kind |-> "StackOverflow", val |-> <<>>]
\* not a value: app_resolver is waiting for the answer to its prompt
Prompt(q, paths) == [kind |-> "Prompt", val |-> <<q, paths>>]

\* str::trim_start_matches(c) and str::trim_end_matches(c)
RECURSIVE TrimStart(_, _)
TrimStart(s, c) ==
    IF s # <<>> /\ s[1] = c THEN TrimStart(Tail(s), c) ELSE s

RECURSIVE TrimEnd(_, _)
TrimEnd(s, c) ==
    IF s # <<>> /\ s[Len(s)] = c THEN TrimEnd(SubSeq(s, 1, Len(s) - 1), c) ELSE s

\* str::trim_matches(c)
TrimMatches(s, c) == TrimEnd(TrimStart(s, c), c)

\* str::trim (the whitespace drawn is the space)
Trim(s) == TrimMatches(s, " ")

\* faulty variant: the slashes are kept
TrimQueryNoSlash(q) == Trim(q)

\* query.trim().trim_matches('/') (line 52)
TrimQuery(q) == TrimMatches(Trim(q), "/")

\* faulty variant: the first path segment is taken for the leaf name
LeafNameFirst(full_name) == Split(full_name, "/")[1]

\* full_name.split('/').last().unwrap_or(full_name) (line 63)
LeafName(full_name) ==
    LET segs == Split(full_name, "/")
    IN  segs[Len(segs)]

\* the filter of lines 61-67; the Vec collected from the HashMap has no
\* specified order and is modelled by the set of its elements
Matches(q) ==
    { apps[n] : n \in { m \in DOMAIN apps : m = q \/ LeafName(m) = q } }

\* app_resolver up to the prompt (utils.rs 55-63)
AppResolver(q, matches) ==
    IF ~interactive \/ ~atty
    THEN AmbiguousQuery(q, matches)
    ELSE Prompt(q, matches)

\* the answers the prompt can get: one of the items, or none (Esc)
Cancelled == <<>>

Answers(r) == r.val[2] \cup {Cancelled}

\* app_resolver after the prompt (utils.rs 80-83)
Answered(r, answer) ==
    IF answer = Cancelled THEN Other("cancelled.") ELSE Ok(answer)

\* faulty variant: a name of an app is never taken for an alias
AliasTargetUnlessApp(t) == IF Matches(t) # {} THEN None ELSE Get(alias, t)

\* self.config.alias.get(trimmed) (line 55)
AliasTarget(t) == Get(alias, t)

\* find_app_inner; depth is the number of its calls now nested, this one
\* included
RECURSIVE FindAppInner(_, _, _)
FindAppInner(q, stack, depth) ==
    IF Contains(stack, q) THEN CircularAlias(Append(stack, q))
    ELSE LET t == TrimQuery(q)
         IN  IF t = <<>> THEN AppNotFound(t)
             ELSE IF AliasTarget(t) # None
                 THEN IF depth >= MaxDepth THEN StackOverflow
                      ELSE FindAppInner(AliasTarget(t)[1], Append(stack, t),
                                        depth + 1)
             ELSE LET matches == Matches(t)
                  IN  IF Cardinality(matches) > 0
                      THEN IF Cardinality(matches) = 1
                           THEN Ok(CHOOSE path \in matches : TRUE)
                           ELSE AppResolver(t, matches)
                      ELSE AppNotFound(t)

\* find_app (lines 80-82)
FindApp(q) == FindAppInner(q, <<>>, 1)

s_doom == <<"d", "o", "o", "m">>
s_games_doom == <<"g", "a", "m", "e", "s", "/">> \o s_doom
s_tools_doom == <<"t", "o", "o", "l", "s", "/">> \o s_doom

\* the path App::find_all records for the app named n (app.rs 123-137)
PathOf(n) == <<"a", "p", "p", "s", "/">> \o n \o <<".", "t", "o", "m", "l">>

\* Launcher.apps for a set of app names
Index(names) == [n \in names |-> PathOf(n)]

\* the app indexes drawn
FindIndexes ==
    { Index({}), Index({s_games_doom}), Index({s_games_doom, s_tools_doom}),
      Index({s_doom, s_games_doom, Name(2)}) }

\* the alias targets drawn: names, and names with surrounding whitespace or
\* slashes
FindTargets ==
    { Name(1), Name(2), Name(1) \o <<"/">>, <<" ">> \o Name(2), s_doom,
      s_games_doom }

\* the alias maps drawn: a and b with any of the targets, and doom, which is
\* also the name of an app, with tools/doom
FindAliases ==
    LET ab == Maps({Name(1), Name(2)}, FindTargets)
    IN  ab \cup { [k \in DOMAIN m \cup {s_doom} |->
                      IF k = s_doom THEN s_tools_doom ELSE m[k]] : m \in ab }

\* the queries drawn
FindQueries ==
    { Name(1), Name(2), <<" ">> \o Name(1), Name(1) \o <<"/">>, s_doom,
      s_games_doom, <<"/">> \o s_games_doom \o <<"/", " ">>, Name(3),
      <<>>, <<"/", "/", "/">>, <<" ", "/", " ">>, <<"/", " ", "/">> }

InitFind ==
    /\ pc = "find_app"
    /\ query \in FindQueries
    /\ alias \in FindAliases
    /\ apps \in FindIndexes
    /\ interactive \in BOOLEAN
    /\ atty \in BOOLEAN
    /\ defs = EmptyMap
    /\ editor = None /\ vars = EmptyMap /\ env = EmptyMap
    /\ start_key = Unused /\ chain = Unused /\ current = Unused
    /\ parent = Unused /\ child = Unused
    /\ text = Unused /\ current_text = Unused /\ new_text = Unused /\ passes = 0
    /\ frames = Unused /\ parts = Unused
    /\ NoLaunch /\ NoCli
    /\ result = NoResult

\* find_app, up to its return or to the prompt of app_resolver
FindAppCall ==
    /\ pc = "find_app"
    /\ result' = FindApp(query)
    /\ pc' = IF result'.kind = "Prompt" THEN "find_prompt" ELSE "done"
    /\ UNCHANGED <<cliVars, cfgVars, launchVars, indexVars, aliasVars, sandVars,
                   expVars, resVars>>

\* the user answers the prompt and find_app returns
FindAppAnswer ==
    /\ pc = "find_prompt"
    /\ \E answer \in Answers(result) : result' = Answered(result, answer)
    /\ pc' = "done"
    /\ UNCHANGED <<cliVars, cfgVars, launchVars, indexVars, aliasVars, sandVars,
                   expVars, resVars>>

NextFind == FindAppCall \/ FindAppAnswer

SpecFind == InitFind /\ [][NextFind]_vars_all

(* The walk over normalized names, computed independently of find_app. *)

\* the names a resolution visits, each normalized, up to the first repetition
RECURSIVE NameWalk(_, _)
NameWalk(n, seen) ==
    IF Contains(seen, n) THEN [cyclic |-> TRUE, names |-> Append(seen, n)]
    ELSE IF n \notin DOMAIN alias THEN [cyclic |-> FALSE, names |-> Append(seen, n)]
    ELSE NameWalk(TrimQuery(alias[n]), Append(seen, n))

HasSuffix(s, suf) ==
    Len(suf) <= Len(s) /\ SubSeq(s, Len(s) - Len(suf) + 1, Len(s)) = suf

\* q is the full name of n or the part of n after its last "/"
NamesApp(q, n) ==
    \/ n = q
    \/ (~Contains(q, "/") /\ HasSuffix(n, <<"/">> \o q))

\* C8: when the names visited from the query, each normalized, come back to a
\* name already visited, find_app fails with CircularAlias carrying the names
\* visited followed by the repeated one, each visited once.
C8_AliasCycleDetected ==
    (pc = "done" /\ NameWalk(TrimQuery(query), <<>>).cyclic) =>
        /\ result.kind = "CircularAlias"
        /\ result.val = NameWalk(TrimQuery(query), <<>>).names

\* C10: for a query that, trimmed, is not empty and not an alias key, find_app
\* fails with AppNotFound when no app has it as full name or last segment,
\* returns the path of the app when there is one, and when there are several
\* and no interaction is possible fails with AmbiguousQuery carrying the
\* trimmed query and the paths of all of them.
C10_MatchByFullOrLeafName ==
    LET q == TrimQuery(query)
        named == { n \in DOMAIN apps : NamesApp(q, n) }
    IN  (pc = "done" /\ q # <<>> /\ q \notin DOMAIN alias) =>
            /\ named = {} => result = AppNotFound(q)
            /\ \A n \in named : named = {n} => result = Ok(apps[n])
            /\ (Cardinality(named) > 1 /\ (~interactive \/ ~atty)) =>
                   result = AmbiguousQuery(q, { apps[n] : n \in named })

C10_Witness ==
    /\ pc = "done"
    /\ query = s_doom
    /\ ~interactive
    /\ DOMAIN apps = {s_games_doom, s_tools_doom}
    /\ result = AmbiguousQuery(s_doom, {PathOf(s_games_doom), PathOf(s_tools_doom)})

\* C23: find_app returns for every query, alias map and index: it ends with a
\* path or with one of its errors, never with the exhaustion of the stack,
\* alias targets that are a key with whitespace or a slash around it
\* included.
C23_FindAppReturns ==
    pc = "done" =>
        result.kind \in
            {"Ok", "AppNotFound", "CircularAlias", "AmbiguousQuery", "Other"}

\* the name the alias chain of n ends at when it does not come back to a name
\* already visited
WalkEnd(n) ==
    LET w == NameWalk(n, <<>>)
    IN  w.names[Len(w.names)]

\* C11: for a query that, trimmed, is a key of the alias map and also the full
\* or the last-segment name of an app, the result of find_app is that of the
\* name the alias chain ends at: AppNotFound of that name when no app has it,
\* the path of the one app that has it, and never the path of an app that the
\* query names and the end of the chain does not; a path is returned only
\* when the chain ends, and only of an app the end of the chain names.
C11_AliasWins ==
    LET q == TrimQuery(query)
        w == NameWalk(q, <<>>)
        l == WalkEnd(q)
        named == { n \in DOMAIN apps : NamesApp(l, n) }
    IN  (/\ pc = "done"
         /\ q \in DOMAIN alias
         /\ \E n \in DOMAIN apps : NamesApp(q, n)) =>
            /\ (~w.cyclic /\ named = {}) => result = AppNotFound(l)
            /\ \A n \in named : (~w.cyclic /\ named = {n}) => result = Ok(apps[n])
            /\ result.kind = "Ok" =>
                   (~w.cyclic /\ result.val \in { apps[n] : n \in named })
            /\ \A n \in DOMAIN apps :
                   (NamesApp(q, n) /\ (w.cyclic \/ ~NamesApp(l, n))) =>
                       result # Ok(apps[n])
            /\ result.kind = "AmbiguousQuery" => result.val[1] = l

\* "doom" is the last segment of two apps and an alias of one of them
C11_Witness ==
    /\ pc = "done"
    /\ query = s_doom
    /\ DOMAIN apps = {s_games_doom, s_tools_doom}
    /\ s_doom \in DOMAIN alias
    /\ alias[s_doom] = s_tools_doom
    /\ result = Ok(PathOf(s_tools_doom))

\* q is spaces, then slashes, then spaces: what trim() and then
\* trim_matches('/') leave nothing of
BlankAroundSlashes(q) ==
    \E i \in 0..Len(q) : \E j \in i..Len(q) :
        \A p \in 1..Len(q) : q[p] = (IF p <= i \/ p > j THEN " " ELSE "/")

\* C12: for a query of which nothing is left once the surrounding whitespace
\* and then the surrounding slashes are trimmed ("", "///", " / "), find_app
\* fails with AppNotFound of the empty name, whatever the alias map and the
\* app index hold. ("/ /" is not such a query: trim() leaves it whole and
\* trim_matches('/') leaves " ", which is looked up like any name.)
C12_EmptyQueryNotFound ==
    (pc = "done" /\ BlankAroundSlashes(query)) => result = AppNotFound(<<>>)

C12_Witness ==
    /\ pc = "done"
    /\ query = <<" ", "/", " ">>
    /\ DOMAIN apps = {s_doom, s_games_doom, Name(2)}
    /\ s_doom \in DOMAIN alias
    /\ result = AppNotFound(<<>>)

-----------------------------------------------------------------------------
(* App::resolve_recursive (app.rs 145-175) on the app a query names        *)
(* (launcher.rs 120-123), one call or one return per step. `frames` holds  *)
(* the apps whose resolve_recursive has been entered and has not returned, *)
(* the outermost first. Reading and parsing a definition file are outside  *)
(* the model: every indexed path holds a well-formed definition.           *)

InvalidApp(path, reason) == [kind |-> "InvalidApp", val |-> <<path, reason>>]

\* App, without its display-only meta
App(bin, args, appenv) == [bin |-> bin, args |-> args, env |-> appenv]

\* ResolvedParts
ResolvedParts(bin, args, e) == [bin |-> bin, args |-> args, env |-> e]

\* HashMap::extend: the entries of e are inserted over those of m
Extend(m, e) ==
    [k \in DOMAIN m \cup DOMAIN e |-> IF k \in DOMAIN e THEN e[k] ELSE m[k]]

\* self.exec.bin.starts_with('@')
IsRunner(bin) == bin # <<>> /\ bin[1] = "@"

\* faulty variant: the remainder of the bin is looked up even when empty
EmptyRunnerNameUnchecked(bin) == FALSE

\* self.exec.bin.len() < 2 (app.rs 146)
EmptyRunnerName(bin) == Len(bin) < 2

\* faulty variant: an app whose call is already pending is not entered again
EnteredCycleChecked(r, frs) ==
    IF r.kind = "Ok"
    THEN IF \E i \in 1..Len(frs) : frs[i] = defs[r.val]
         THEN [pc |-> "done", frames |-> frs, result |-> CircularAlias(<<r.val>>)]
         ELSE IF Len(frs) >= MaxDepth
         THEN [pc |-> "done", frames |-> frs, result |-> StackOverflow]
         ELSE [pc |-> "resolve_recursive", frames |-> Append(frs, defs[r.val]),
               result |-> NoResult]
    ELSE IF r.kind = "Prompt"
    THEN [pc |-> "resolve_prompt", frames |-> frs, result |-> r]
    ELSE [pc |-> "done", frames |-> frs, result |-> r]

\* faulty variant: a failed lookup is taken for an app with nothing in it
EnteredSwallowed(r, frs) ==
    IF r.kind = "Ok"
    THEN IF Len(frs) >= MaxDepth
         THEN [pc |-> "done", frames |-> frs, result |-> StackOverflow]
         ELSE [pc |-> "resolve_recursive", frames |-> Append(frs, defs[r.val]),
               result |-> NoResult]
    ELSE IF r.kind = "Prompt"
    THEN [pc |-> "resolve_prompt", frames |-> frs, result |-> r]
    ELSE [pc |-> "done", frames |-> frs,
          result |-> Ok(ResolvedParts(<<>>, <<>>, EmptyMap))]

\* what follows a lookup that returned r, with frs the calls already pending:
\* the definition is loaded and its resolve_recursive entered, or the prompt
\* of app_resolver is awaited, or the error is returned through every
\* pending call by `?`
Entered(r, frs) ==
    IF r.kind = "Ok"
    THEN IF Len(frs) >= MaxDepth
         THEN [pc |-> "done", frames |-> frs, result |-> StackOverflow]
         ELSE [pc |-> "resolve_recursive", frames |-> Append(frs, defs[r.val]),
               result |-> NoResult]
    ELSE IF r.kind = "Prompt"
    THEN [pc |-> "resolve_prompt", frames |-> frs, result |-> r]
    ELSE [pc |-> "done", frames |-> frs, result |-> r]

\* faulty variant: this layer's args are taken for the parent of the sandwich
LayerArgsSwapped(inner, own) ==
    IF inner # <<>> THEN SandwichArgs(own, inner) ELSE own

\* faulty variant: this layer's args are appended, whatever the inner args hold
LayerArgsAppended(inner, own) == inner \o own

\* lines 162-167: the args of this layer merged into the inner result
LayerArgs(inner, own) ==
    IF inner # <<>> THEN SandwichArgs(inner, own) ELSE own

\* faulty variant: the entries of the inner result are kept over this layer's
LayerEnvInnerWins(inner, own) ==
    IF own # None THEN Extend(own[1], inner) ELSE inner

\* lines 169-172: the env overrides of this layer merged into the inner result
LayerEnv(inner, own) ==
    IF own # None THEN Extend(inner, own[1]) ELSE inner

\* launcher.rs 120-122: the query is looked up and its definition loaded
ResolveFind ==
    /\ pc = "resolve"
    /\ LET e == Entered(FindApp(query), <<>>)
       IN  /\ pc' = e.pc
           /\ frames' = e.frames
           /\ result' = e.result
    /\ UNCHANGED <<cliVars, query, parts, cfgVars, launchVars, indexVars,
                   aliasVars, sandVars, expVars>>

\* app.rs 146-160: the innermost pending call looks at its bin
ResolveDescend ==
    /\ pc = "resolve_recursive"
    /\ LET self == frames[Len(frames)]
       IN  IF IsRunner(self.bin)
           THEN IF EmptyRunnerName(self.bin)
                THEN /\ result' = InvalidApp(<<>>, Some("app name cannot be empty!"))
                     /\ pc' = "done"
                     /\ UNCHANGED <<frames, parts>>
                ELSE LET e == Entered(FindApp(Tail(self.bin)), frames)
                     IN  /\ pc' = e.pc
                         /\ frames' = e.frames
                         /\ result' = e.result
                         /\ UNCHANGED parts
           ELSE /\ parts' = ResolvedParts(self.bin, <<>>, EmptyMap)
                /\ pc' = "resolve_merge"
                /\ UNCHANGED <<frames, result>>
    /\ UNCHANGED <<cliVars, query, cfgVars, launchVars, indexVars, aliasVars,
                   sandVars, expVars>>

\* the user answers the prompt of a lookup
ResolveAnswer ==
    /\ pc = "resolve_prompt"
    /\ \E answer \in Answers(result) :
           LET e == Entered(Answered(result, answer), frames)
           IN  /\ pc' = e.pc
               /\ frames' = e.frames
               /\ result' = e.result
    /\ UNCHANGED <<cliVars, query, parts, cfgVars, launchVars, indexVars,
                   aliasVars, sandVars, expVars>>

\* app.rs 162-174: the innermost pending call merges its args and env into
\* the parts it got and returns them
ResolveMerge ==
    /\ pc = "resolve_merge"
    /\ LET self == frames[Len(frames)]
           merged == ResolvedParts(parts.bin, LayerArgs(parts.args, self.args),
                                   LayerEnv(parts.env, self.env))
       IN  /\ parts' = merged
           /\ frames' = SubSeq(frames, 1, Len(frames) - 1)
           /\ IF Len(frames) = 1
              THEN pc' = ret /\ result' = Ok(merged)
              ELSE pc' = "resolve_merge" /\ UNCHANGED result
    /\ UNCHANGED <<cliVars, query, cfgVars, launchVars, indexVars, aliasVars,
                   sandVars, expVars>>

NextResolve == ResolveFind \/ ResolveDescend \/ ResolveAnswer \/ ResolveMerge

\* "@" name
Runner(n) == <<"@">> \o n

s_al == <<"a", "l">>
s_l1 == <<"l", "1">>
s_l2 == <<"l", "2">>
s_zz == <<"z", "z">>
s_g_d == <<"g", "/", "d">>
s_t_d == <<"t", "/", "d">>
s_K == <<"K">>
s_J == <<"J">>

\* the apps a, b and c, and two apps with the same leaf name d
ResolveNames == { Name(1), Name(2), Name(3), s_g_d, s_t_d }

\* the bins drawn for a: a literal, itself, b, the empty runner name, an
\* unknown app, an alias of c, an alias in a cycle, an ambiguous leaf name
BinsA ==
    { <<"x">>, Runner(Name(1)), Runner(Name(2)), <<"@">>, Runner(s_zz),
      Runner(s_al), Runner(s_l1), Runner(<<"d">>) }

BinsB == { <<"y">>, Runner(Name(1)), Runner(Name(3)), <<"@">> }

\* the args drawn for a and b: none, one of its own, the marker between two
\* of its own, the marker alone
Own(n, i) == n \o <<i>>

ArgsA == { <<>>, <<Own(Name(1), "1")>>,
           <<Own(Name(1), "1"), Marker, Own(Name(1), "2")>> }

ArgsB == { <<>>, <<Marker>>,
           <<Own(Name(2), "1"), Marker, Own(Name(2), "2")>> }

\* the args drawn for c: none, the marker alone, the marker after one of its own
ArgsC == { <<>>, <<Marker>>, <<Own(Name(3), "1"), Marker>> }

\* the env overrides drawn for the app named n
EnvsOf(n) == { None, Some([k \in {s_K, n} |-> n]) }

\* the alias map of the runner lookups: al names c, l1 and l2 name each other
ResolveAlias ==
    [k \in {s_al, s_l1, s_l2} |->
        IF k = s_al THEN Name(3) ELSE IF k = s_l1 THEN s_l2 ELSE s_l1]

InitResolve ==
    /\ pc = "resolve"
    /\ query = Name(1)
    /\ apps = Index(ResolveNames)
    /\ \E ba \in BinsA, bb \in BinsB,
          aa \in ArgsA, ab \in ArgsB, ac \in ArgsC,
          ea \in EnvsOf(Name(1)), eb \in EnvsOf(Name(2)) :
           defs = [path \in { PathOf(n) : n \in ResolveNames } |->
                      IF path = PathOf(Name(1)) THEN App(ba, aa, ea)
                      ELSE IF path = PathOf(Name(2)) THEN App(bb, ab, eb)
                      ELSE IF path = PathOf(Name(3))
                          THEN App(<<"z">>, ac, Some([k \in {s_K, s_J} |-> Name(3)]))
                      ELSE App(<<"w">>, <<>>, None)]
    /\ alias = ResolveAlias
    /\ interactive \in BOOLEAN
    /\ atty = TRUE
    /\ editor = None /\ vars = EmptyMap /\ env = EmptyMap
    /\ frames = <<>> /\ parts = Unused
    /\ start_key = Unused /\ chain = Unused /\ current = Unused
    /\ parent = Unused /\ child = Unused
    /\ text = Unused /\ current_text = Unused /\ new_text = Unused /\ passes = 0
    /\ NoLaunch /\ NoCli
    /\ result = NoResult

SpecResolve == InitResolve /\ [][NextResolve]_vars_all

\* the definition of the app named n
DefOf(n) == defs[PathOf(n)]

\* C7: when a's bin is "@b", b's is "@c" and c's is a literal with args
\* ["%!"], resolving a returns parts whose bin is the literal of c and whose
\* args are sandwich_args(sandwich_args(c's args, b's args), a's args).
C7_ThreeLayerSandwich ==
    (/\ pc = "done"
     /\ DefOf(Name(1)).bin = Runner(Name(2))
     /\ DefOf(Name(2)).bin = Runner(Name(3))
     /\ DefOf(Name(3)).args = <<Marker>>) =>
        /\ result.kind = "Ok"
        /\ result.val.bin = DefOf(Name(3)).bin
        /\ ~IsRunner(result.val.bin)
        /\ result.val.args =
               SandwichArgs(SandwichArgs(DefOf(Name(3)).args, DefOf(Name(2)).args),
                            DefOf(Name(1)).args)

C7_Witness ==
    /\ pc = "done"
    /\ DefOf(Name(1)).bin = Runner(Name(2))
    /\ DefOf(Name(2)).bin = Runner(Name(3))
    /\ DefOf(Name(3)).args = <<Marker>>
    /\ DefOf(Name(2)).args = << <<"b", "1">>, Marker, <<"b", "2">> >>
    /\ DefOf(Name(1)).args = << <<"a", "1">>, Marker, <<"a", "2">> >>
    /\ result.kind = "Ok"
    /\ result.val.bin = <<"z">>
    /\ result.val.args =
           << <<"b", "1">>, <<"a", "1">>, Marker, <<"a", "2">>, <<"b", "2">> >>

\* a's bin names a itself, or names b whose bin names a
RunnerCycle ==
    \/ DefOf(Name(1)).bin = Runner(Name(1))
    \/ (DefOf(Name(1)).bin = Runner(Name(2)) /\ DefOf(Name(2)).bin = Runner(Name(1)))

\* C9: a runner-reference cycle makes the resolution fail with CircularAlias
\* carrying the chain of the names of the cycle.
C9_RunnerCycleDetected ==
    (pc = "done" /\ RunnerCycle) =>
        /\ result.kind = "CircularAlias"
        /\ Len(result.val) >= 2
        /\ result.val[1] = result.val[Len(result.val)]

\* C22: when a's bin is "@a", the resolution of a never returns: the lookup
\* of the runner name starts from an empty stack and finds a again, whatever
\* the calls already pending, so every step enters one more call on a; no
\* call merges or returns parts, no error is returned, and the only end is
\* the exhaustion of the stack.
C22_SelfRunnerUnbounded ==
    /\ [](DefOf(Name(1)).bin = Runner(Name(1)) =>
              /\ pc \in {"resolve", "resolve_recursive", "done"}
              /\ parts = Unused
              /\ result \in {NoResult, StackOverflow}
              /\ \A i \in 1..Len(frames) : frames[i] = DefOf(Name(1))
              /\ pc = "resolve_recursive" => FindApp(Name(1)) = Ok(PathOf(Name(1)))
              /\ pc = "done" => (result = StackOverflow /\ Len(frames) = MaxDepth))
    /\ [][(/\ DefOf(Name(1)).bin = Runner(Name(1))
           /\ pc = "resolve_recursive"
           /\ Len(frames) < MaxDepth) =>
              /\ pc' = "resolve_recursive"
              /\ frames' = Append(frames, DefOf(Name(1)))
              /\ result' = NoResult]_vars_all

\* the calls on a have filled the stack
C22_Witness ==
    /\ pc = "done"
    /\ DefOf(Name(1)).bin = Runner(Name(1))
    /\ Len(frames) = MaxDepth
    /\ frames[MaxDepth] = DefOf(Name(1))
    /\ result = StackOverflow

\* the env overrides of the app named n, none being no entry
OwnEnv(n) == IF DefOf(n).env = None THEN EmptyMap ELSE DefOf(n).env[1]

\* C13: when a's bin is "@b" and the resolution of a returns parts, their env
\* holds exactly the keys of a, of b and, when b's bin is "@c", of c; a key of
\* a has a's value, a key of b and not of a has b's value, and a key of c
\* alone has c's value.
C13_OuterEnvWins ==
    LET ea == OwnEnv(Name(1))
        eb == OwnEnv(Name(2))
        ec == IF DefOf(Name(2)).bin = Runner(Name(3)) THEN OwnEnv(Name(3))
              ELSE EmptyMap
    IN  (/\ pc = "done"
         /\ DefOf(Name(1)).bin = Runner(Name(2))
         /\ result.kind = "Ok") =>
            /\ DOMAIN result.val.env = DOMAIN ea \cup DOMAIN eb \cup DOMAIN ec
            /\ \A k \in DOMAIN result.val.env :
                   result.val.env[k] = IF k \in DOMAIN ea THEN ea[k]
                                       ELSE IF k \in DOMAIN eb THEN eb[k]
                                       ELSE ec[k]

\* K is set by a, by b and by c; a, b and J by one of them each
C13_Witness ==
    /\ pc = "done"
    /\ DefOf(Name(1)).bin = Runner(Name(2))
    /\ DefOf(Name(2)).bin = Runner(Name(3))
    /\ s_K \in DOMAIN OwnEnv(Name(1)) \cap DOMAIN OwnEnv(Name(2))
                  \cap DOMAIN OwnEnv(Name(3))
    /\ result.kind = "Ok"
    /\ result.val.env = [k \in {s_K, s_J, Name(1), Name(2)} |->
                             IF k = s_K THEN Name(1)
                             ELSE IF k = s_J THEN Name(3) ELSE k]

\* C14: a call of resolve_recursive on an app whose bin is "@" alone returns
\* InvalidApp with the reason "app name cannot be empty!" in that step, and
\* no call of resolve_recursive on another app is entered: the pending calls
\* are the same, and the error is the result of the resolution.
C14_EmptyRunnerInvalid ==
    [][(pc = "resolve_recursive" /\ frames[Len(frames)].bin = <<"@">>) =>
           /\ pc' = "done"
           /\ result' = InvalidApp(<<>>, Some("app name cannot be empty!"))
           /\ frames' = frames
           /\ parts' = parts]_vars_all

\* the runner b of a has the bin "@"
C14_Witness ==
    /\ pc = "done"
    /\ DefOf(Name(1)).bin = Runner(Name(2))
    /\ DefOf(Name(2)).bin = <<"@">>
    /\ frames = <<DefOf(Name(1)), DefOf(Name(2))>>
    /\ result = InvalidApp(<<>>, Some("app name cannot be empty!"))

\* own put in the place of the first "%!" of inner, or after inner when it
\* has none
Spliced(inner, own) ==
    IF \E p \in 1..Len(inner) : inner[p] = Marker
    THEN LET p == CHOOSE i \in 1..Len(inner) :
                      inner[i] = Marker /\ \A j \in 1..(i - 1) : inner[j] # Marker
         IN  SubSeq(inner, 1, p - 1) \o own \o SubSeq(inner, p + 1, Len(inner))
    ELSE inner \o own

\* C18: the call of resolve_recursive that merges its layer leaves, for args,
\* its own args spliced into the args it got when these are not empty, and
\* its own args as they are when they are empty; it returns the parts to its
\* caller; and an app with a literal bin resolves to its own args, a "%!"
\* among them included.
C18_LayerArgs ==
    /\ [][pc = "resolve_merge" =>
              /\ parts'.args = IF parts.args # <<>>
                                THEN Spliced(parts.args, frames[Len(frames)].args)
                                ELSE frames[Len(frames)].args
              /\ parts'.bin = parts.bin
              /\ frames' = SubSeq(frames, 1, Len(frames) - 1)]_vars_all
    /\ []((pc = "done" /\ ~IsRunner(DefOf(Name(1)).bin)) =>
              /\ result.kind = "Ok"
              /\ result.val.args = DefOf(Name(1)).args
              /\ result.val.bin = DefOf(Name(1)).bin)

\* a's one argument takes the place of the "%!" of b
C18_Witness ==
    /\ pc = "done"
    /\ DefOf(Name(1)).bin = Runner(Name(2))
    /\ DefOf(Name(1)).args = <<Own(Name(1), "1")>>
    /\ ~IsRunner(DefOf(Name(2)).bin)
    /\ DefOf(Name(2)).args = <<Own(Name(2), "1"), Marker, Own(Name(2), "2")>>
    /\ result.kind = "Ok"
    /\ result.val.args = <<Own(Name(2), "1"), Own(Name(1), "1"), Own(Name(2), "2")>>

-----------------------------------------------------------------------------
(* Launcher::launch_app (launcher.rs 112-165): the resolution above, which *)
(* returns to it, then one step for each of its numbered parts. The name   *)
(* looked up at line 121 is only printed and is left out.                  *)

IoError == [kind |-> "IoError", val |-> <<>>]

\* Command::new(bin).args(args), with .envs(e) when envs is Some(e)
Command(bin, args, envs) == [bin |-> bin, args |-> args, envs |-> envs]

\* expand_vars as a function: the text returned after the last pass
RECURSIVE ExpandFrom(_, _)
ExpandFrom(cur, n) ==
    LET r == ExpandIteration(cur, n)
    IN  IF r.pc = "done" THEN r.result.val
        ELSE ExpandFrom(r.current_text, r.passes)

ExpandVars(t) == ExpandFrom(t, 0)

\* faulty variant: the CLI-supplied env is applied last
LayerLaunchEnvCliLast(cli, cfg, app) == Extend(Extend(cfg, app), cli)

\* lines 129-131
LayerLaunchEnv(cli, cfg, app) == Extend(Extend(cli, cfg), app)

\* faulty variant: the resolved args are expanded before the CLI args are
\* merged into them
IntermediateArgsExpandedFirst(args, cli) ==
    SandwichArgs([i \in DOMAIN args |-> ExpandVars(args[i])], cli)

\* line 126
IntermediateArgs(args, cli) == SandwichArgs(args, cli)

\* line 126
LaunchSandwich ==
    /\ pc = "launch_app"
    /\ intermediate_args' = IntermediateArgs(parts.args, cli_args)
    /\ pc' = "layer_envs"
    /\ UNCHANGED <<cliVars, ret, cli_args, cli_env, background, final_bin,
                   final_args, final_env, spawned, cfgVars, indexVars,
                   aliasVars, sandVars, expVars, resVars, result>>

\* lines 129-131
LaunchLayerEnvs ==
    /\ pc = "layer_envs"
    /\ final_env' = LayerLaunchEnv(cli_env, env, parts.env)
    /\ pc' = "expand"
    /\ UNCHANGED <<cliVars, ret, cli_args, cli_env, background,
                   intermediate_args, final_bin, final_args, spawned, cfgVars,
                   indexVars, aliasVars, sandVars, expVars, resVars, result>>

\* lines 134-142
LaunchExpand ==
    /\ pc = "expand"
    /\ final_bin' = ExpandVars(parts.bin)
    /\ final_args' = [i \in DOMAIN intermediate_args |->
                          ExpandVars(intermediate_args[i])]
    /\ final_env' = [k \in DOMAIN final_env |-> ExpandVars(final_env[k])]
    /\ pc' = "spawn"
    /\ UNCHANGED <<cliVars, ret, cli_args, cli_env, background,
                   intermediate_args, spawned, cfgVars, indexVars, aliasVars,
                   sandVars, expVars, resVars, result>>

\* lines 145-164: in the background the command is spawned and forgotten,
\* whatever comes of it; otherwise its exit is awaited, and a command that
\* could not be run is an error
LaunchSpawn ==
    /\ pc = "spawn"
    /\ IF background
       THEN /\ spawned' = Append(spawned, Command(final_bin, final_args, None))
            /\ result' = Ok(<<>>)
       ELSE /\ spawned' = Append(spawned,
                                 Command(final_bin, final_args, Some(final_env)))
            /\ \E ran \in BOOLEAN : result' = IF ran THEN Ok(<<>>) ELSE IoError
    /\ pc' = "done"
    /\ UNCHANGED <<cliVars, ret, cli_args, cli_env, background,
                   intermediate_args, final_bin, final_args, final_env,
                   cfgVars, indexVars, aliasVars, sandVars, expVars, resVars>>

NextLaunch ==
    \/ NextResolve
    \/ LaunchSandwich \/ LaunchLayerEnvs \/ LaunchExpand \/ LaunchSpawn

s_v == <<"v">>
s_vi == <<"v", "i">>
s_cli == <<"c", "l", "i">>
s_cfg == <<"c", "f", "g">>
s_C == <<"C">>
s_G == <<"G">>
s_A == <<"A">>
s_B == <<"B">>

\* the apps a and b, and two apps with the same leaf name d
LaunchNames == { Name(1), Name(2), s_g_d, s_t_d }

\* the bins drawn for a: two literals, one of them a placeholder, b, the
\* empty runner name, an unknown app, an alias in a cycle, an ambiguous leaf
\* name
LaunchBinsA ==
    { <<"x">>, Placeholder(s_v), Runner(Name(2)), <<"@">>, Runner(s_zz),
      Runner(s_l1), Runner(<<"d">>) }

\* the bins drawn for b: a literal, the empty runner name
LaunchBinsB == { <<"y">>, <<"@">> }

\* the args drawn for a: none, a placeholder before one of its own, the
\* marker before a placeholder
LaunchArgsA ==
    { <<>>, <<Placeholder(s_v), Own(Name(1), "1")>>, <<Marker, Placeholder(s_v)>> }

\* the args drawn for the command line
CliArgs == { <<>>, <<Own(Name(3), "1")>>, <<Placeholder(s_v)>> }

\* the env overrides drawn for a
LaunchEnvsA ==
    { None, Some([k \in {s_K, s_A} |-> IF k = s_K THEN Name(1) ELSE Placeholder(s_v)]) }

\* the env drawn for the command line
CliEnvs == { EmptyMap, [k \in {s_K, s_G, s_C} |-> s_cli] }

\* the env drawn for the config
ConfigEnvs ==
    { EmptyMap, [k \in {s_K, s_G} |-> IF k = s_K THEN s_cfg ELSE Placeholder(s_v)] }

\* the variable v drawn: a word, and the marker
LaunchVarMaps == { [k \in {s_v} |-> s_vi], [k \in {s_v} |-> Marker] }

InitLaunch ==
    /\ pc = "resolve"
    /\ ret = "launch_app"
    /\ query = Name(1)
    /\ apps = Index(LaunchNames)
    /\ \E ba \in LaunchBinsA, bb \in LaunchBinsB, aa \in LaunchArgsA,
          ea \in LaunchEnvsA :
           defs = [path \in { PathOf(n) : n \in LaunchNames } |->
                      IF path = PathOf(Name(1)) THEN App(ba, aa, ea)
                      ELSE IF path = PathOf(Name(2))
                          THEN App(bb, <<Own(Name(2), "1"), Marker>>,
                                   Some([k \in {s_K, s_B} |-> Name(2)]))
                      ELSE App(<<"w">>, <<>>, None)]
    /\ alias = ResolveAlias
    /\ vars \in LaunchVarMaps
    /\ env \in ConfigEnvs
    /\ cli_args \in CliArgs
    /\ cli_env \in CliEnvs
    /\ background \in BOOLEAN
    /\ interactive \in BOOLEAN
    /\ atty = TRUE
    /\ editor = None
    /\ frames = <<>> /\ parts = Unused
    /\ intermediate_args = Unused
    /\ final_bin = Unused /\ final_args = Unused /\ final_env = Unused
    /\ spawned = <<>>
    /\ NoCli
    /\ start_key = Unused /\ chain = Unused /\ current = Unused
    /\ parent = Unused /\ child = Unused
    /\ text = Unused /\ current_text = Unused /\ new_text = Unused /\ passes = 0
    /\ result = NoResult

SpecLaunch == InitLaunch /\ [][NextLaunch]_vars_all

\* the kinds of the failures of a resolution
ResolutionErrors ==
    { "AppNotFound", "AmbiguousQuery", "CircularAlias", "InvalidApp", "Other" }

\* Some(the failure the step at hand meets), None when it meets none: the
\* lookup of the query, or the look of the innermost pending call at its bin
StepError ==
    LET failed(r) == IF r.kind \in ResolutionErrors THEN Some(r) ELSE None
    IN  IF pc = "resolve" THEN failed(FindApp(query))
        ELSE IF pc = "resolve_recursive" /\ IsRunner(frames[Len(frames)].bin)
        THEN IF frames[Len(frames)].bin = <<"@">>
             THEN Some(InvalidApp(<<>>, Some("app name cannot be empty!")))
             ELSE failed(FindApp(Tail(frames[Len(frames)].bin)))
        ELSE None

\* C16: a step of a resolution that meets a failure (the lookup of the query
\* or of a runner fails with AppNotFound, AmbiguousQuery or CircularAlias, a
\* bin is "@" alone, the prompt is cancelled) ends launch_app with that very
\* failure: no parts are merged, no call is returned from, nothing runs
\* after it, and no command is ever handed to the operating system; parts
\* reach launch_app only when every hop succeeded, with a literal bin.
C16_ErrorsAbort ==
    /\ [](/\ result.kind \in ResolutionErrors =>
                 (pc = "done" /\ spawned = <<>> /\ final_bin = Unused)
          /\ pc = "launch_app" =>
                 /\ frames = <<>>
                 /\ result = Ok(parts)
                 /\ ~IsRunner(parts.bin)
          /\ spawned # <<>> => (pc = "done" /\ result.kind \in {"Ok", "IoError"}))
    /\ [][/\ pc # "done"
          /\ StepError # None =>
                 /\ result' = StepError[1]
                 /\ pc' = "done"
                 /\ UNCHANGED <<frames, parts, spawned>>
          /\ (pc = "resolve_prompt" /\ result'.kind \in ResolutionErrors) =>
                 /\ result' = Other("cancelled.")
                 /\ pc' = "done"
                 /\ UNCHANGED <<frames, parts, spawned>>]_vars_all

\* the runner b of a has the bin "@": nothing is launched
C16_Witness ==
    /\ pc = "done"
    /\ ret = "launch_app"
    /\ DefOf(Name(1)).bin = Runner(Name(2))
    /\ DefOf(Name(2)).bin = <<"@">>
    /\ Len(frames) = 2
    /\ result.kind = "InvalidApp"
    /\ spawned = <<>>

\* the value of k in the three layers: the resolved app env, else the
\* config env, else the CLI-supplied env
Layered(k) ==
    IF k \in DOMAIN parts.env THEN parts.env[k]
    ELSE IF k \in DOMAIN env THEN env[k]
    ELSE cli_env[k]

\* C20: the env launch_app has layered holds the keys of the CLI-supplied
\* env, of the config env and of the resolved app env, and no other; a key
\* of the resolved app env has its value there, a key of the config env and
\* not of the app has the config's value, a key of the CLI alone has the
\* CLI's; the final env holds the same keys with each value expanded, and
\* it is the env set on the command that is waited for.
C20_EnvLayers ==
    /\ pc = "expand" =>
           /\ DOMAIN final_env =
                  DOMAIN cli_env \cup DOMAIN env \cup DOMAIN parts.env
           /\ \A k \in DOMAIN final_env : final_env[k] = Layered(k)
    /\ (pc = "spawn" \/ spawned # <<>>) =>
           /\ DOMAIN final_env =
                  DOMAIN cli_env \cup DOMAIN env \cup DOMAIN parts.env
           /\ \A k \in DOMAIN final_env : final_env[k] = ExpandVars(Layered(k))
    /\ (spawned # <<>> /\ ~background) =>
           spawned = <<Command(final_bin, final_args, Some(final_env))>>

\* K is set in the three layers, G by the CLI and the config, C by the CLI
\* alone and A by the app alone
C20_Witness ==
    /\ pc = "done"
    /\ ~background
    /\ Len(spawned) = 1
    /\ DOMAIN cli_env = {s_K, s_G, s_C}
    /\ DOMAIN env = {s_K, s_G}
    /\ DOMAIN parts.env = {s_K, s_A}
    /\ vars[s_v] = s_vi
    /\ spawned[1].envs =
           Some([k \in {s_K, s_G, s_C, s_A} |->
                    IF k = s_K THEN Name(1) ELSE IF k = s_C THEN s_cli ELSE s_vi])

\* C21: launch_app merges the CLI args into the resolved args as they were
\* written, before anything is expanded (the merged args are the CLI args
\* put at the first "%!" written in the resolved args, or after them when
\* none is written), and expands after that, each merged arg on its own:
\* the final args are as many as the merged ones; an arg "%!" is expanded
\* to itself; and when no "%!" is written in the resolved args, the final
\* args are the expanded resolved args followed by the expanded CLI args,
\* whatever the placeholders expand to.
C21_SandwichThenExpand ==
    /\ [](/\ ExpandVars(Marker) = Marker
          /\ pc \in {"layer_envs", "expand"} =>
                 /\ intermediate_args = Spliced(parts.args, cli_args)
                 /\ final_args = Unused
          /\ (pc = "spawn" \/ spawned # <<>>) =>
                 /\ intermediate_args = Spliced(parts.args, cli_args)
                 /\ Len(final_args) = Len(intermediate_args)
                 /\ \A i \in 1..Len(final_args) :
                        /\ final_args[i] = ExpandVars(intermediate_args[i])
                        /\ intermediate_args[i] = Marker => final_args[i] = Marker
                 /\ (\A i \in 1..Len(parts.args) : parts.args[i] # Marker) =>
                        final_args =
                            [i \in 1..Len(parts.args) |-> ExpandVars(parts.args[i])]
                            \o [i \in 1..Len(cli_args) |-> ExpandVars(cli_args[i])])
    /\ [][/\ pc = "launch_app" =>
                 /\ intermediate_args' = Spliced(parts.args, cli_args)
                 /\ final_args' = Unused
          /\ pc = "expand" => intermediate_args' = intermediate_args]_vars_all

\* v is "%!": the first arg of a expands to "%!", and the CLI arg comes
\* after the args of a all the same
C21_Witness ==
    /\ pc = "done"
    /\ Len(spawned) = 1
    /\ vars[s_v] = Marker
    /\ parts.args = <<Placeholder(s_v), Own(Name(1), "1")>>
    /\ cli_args = <<Own(Name(3), "1")>>
    /\ spawned[1].args = <<Marker, Own(Name(1), "1"), Own(Name(3), "1")>>

\* the env of the process a command starts: the env of this process, which
\* is the CLI-supplied env (main.rs 61), with the env set on the command
\* over it
ProcessEnv(cmd) ==
    IF cmd.envs = None THEN cli_env ELSE Extend(cli_env, cmd.envs[1])

\* C24: the command launch_app hands to the operating system is the same in
\* the background and in the foreground: the final bin, the final args, and
\* the final env set on it.
C24_SameCommandInBothModes ==
    spawned # <<>> =>
        /\ Len(spawned) = 1
        /\ spawned[1].bin = final_bin
        /\ spawned[1].args = final_args
        /\ ProcessEnv(spawned[1]) = final_env

-----------------------------------------------------------------------------
(* The subcommands `config set`, `config get`, `alias set` and `var set`   *)
(* (main.rs 147-208, 258-264, 291-297), one run of the program per step.   *)
(* The config variables are the config file: every run loads it and a run  *)
(* that reaches std::fs::write replaces it. Failures of the file system    *)
(* and of the serializer are outside the model.                            *)

AliasNotFound(k) == [kind |-> "AliasNotFound", val |-> k]

\* the config a run has loaded
Cfg ==
    [interactive |-> interactive, editor |-> editor, alias |-> alias,
     vars |-> vars, env |-> env]

UpperLetters ==
    <<"A", "B", "C", "D", "E", "F", "G", "H", "I", "J", "K", "L", "M",
      "N", "O", "P", "Q", "R", "S", "T", "U", "V", "W", "X", "Y", "Z">>

LowerLetters ==
    <<"a", "b", "c", "d", "e", "f", "g", "h", "i", "j", "k", "l", "m",
      "n", "o", "p", "q", "r", "s", "t", "u", "v", "w", "x", "y", "z">>

\* str::to_lowercase, on the letters A to Z
ToLowercase(s) ==
    [i \in DOMAIN s |->
        IF \E n \in DOMAIN UpperLetters : UpperLetters[n] = s[i]
        THEN LowerLetters[CHOOSE n \in DOMAIN UpperLetters : UpperLetters[n] = s[i]]
        ELSE s[i]]

\* parse_bool (utils.rs 47-53)
ParseBool(s) ==
    LET t == Trim(ToLowercase(s))
    IN  IF t \in { <<"1">>, s_true, <<"y", "e", "s">>, <<"y">>, <<"o", "n">> }
            THEN Some(TRUE)
        ELSE IF t \in { <<"0">>, s_false, <<"n", "o">>, <<"n">>, <<"o", "f", "f">> }
            THEN Some(FALSE)
        ELSE None

\* HashMap::insert: the map with k set to v
Insert(m, k, v) == Extend(m, [x \in {k} |-> v])

\* map "." k
MapKey(map, k) == map \o <<".">> \o k

\* c.<map>.insert(k, value).ok_or(..)? (main.rs 185-198): insert returns the
\* value k had, and the run goes on only when it had one
InsertChecked(m, key, k, value) ==
    IF Get(m, k) # None
    THEN [map |-> Insert(m, k, value), result |-> Ok(<<>>)]
    ELSE [map |-> m, result |-> Other(<<"could not set", key, value>>)]

\* ConfigCmd::Set (main.rs 179-208): the config written, which is the one
\* loaded when the write is not reached, and what the run returns
ConfigSetRun(c, key, value) ==
    LET segs == Split(key, ".")
    IN  IF segs = <<s_interactive>>
        THEN IF ParseBool(value) # None
             THEN [cfg |-> [c EXCEPT !.interactive = ParseBool(value)[1]],
                   result |-> Ok(<<>>)]
             ELSE [cfg |-> c, result |-> Other(<<"parse error", value>>)]
        ELSE IF segs = <<s_editor>>
        THEN [cfg |-> [c EXCEPT !.editor = Some(value)], result |-> Ok(<<>>)]
        ELSE IF Len(segs) = 2 /\ segs[1] = s_alias
        THEN LET r == InsertChecked(c.alias, key, segs[2], value)
             IN  [cfg |-> [c EXCEPT !.alias = r.map], result |-> r.result]
        ELSE IF Len(segs) = 2 /\ segs[1] = s_vars
        THEN LET r == InsertChecked(c.vars, key, segs[2], value)
             IN  [cfg |-> [c EXCEPT !.vars = r.map], result |-> r.result]
        ELSE IF Len(segs) = 2 /\ segs[1] = s_env
        THEN LET r == InsertChecked(c.env, key, segs[2], value)
             IN  [cfg |-> [c EXCEPT !.env = r.map], result |-> r.result]
        ELSE [cfg |-> c, result |-> Other(<<"invalid key", key>>)]

s_not_specified == <<"n", "o", "t", " ", "s", "p", "e", "c", "i", "f", "i", "e", "d">>

\* ConfigCmd::Get with a key (main.rs 147-178): the lines printed and what
\* the run returns
ConfigGetRun(c, key) ==
    LET segs == Split(key, ".")
        found(v, err) == IF v # None THEN [stdout |-> <<v[1]>>, result |-> Ok(<<>>)]
                         ELSE [stdout |-> <<>>, result |-> err]
    IN  IF segs = <<s_interactive>>
            THEN found(Some(BoolToString(c.interactive)), NoResult)
        ELSE IF segs = <<s_editor>>
            THEN found(Some(IF c.editor # None THEN c.editor[1] ELSE s_not_specified),
                       NoResult)
        ELSE IF Len(segs) = 2 /\ segs[1] = s_alias
            THEN found(Get(c.alias, segs[2]), AliasNotFound(segs[2]))
        ELSE IF Len(segs) = 2 /\ segs[1] = s_vars
            THEN found(Get(c.vars, segs[2]), Other(<<"not defined", segs[2]>>))
        ELSE IF Len(segs) = 2 /\ segs[1] = s_env
            THEN found(Get(c.env, segs[2]), Other(<<"not defined", segs[2]>>))
        ELSE [stdout |-> <<>>, result |-> Other(<<"invalid key", key>>)]

\* the subcommand of a run
Argv(cmd, key, value) == [cmd |-> cmd, key |-> key, value |-> value]

\* std::fs::write(path, toml::to_string_pretty(&c)) (main.rs 205-206)
WriteConfig(c) ==
    /\ interactive' = c.interactive
    /\ editor' = c.editor
    /\ alias' = c.alias
    /\ vars' = c.vars
    /\ env' = c.env

\* the names drawn for K: a, and a name with a dot in it
CliNames == { Name(1), s_a_b }

\* the value drawn: it is also a boolean
CliValues == { <<"N">> }

\* the keys drawn for `config set` and `config get`
CliKeys ==
    { s_interactive, s_editor, s_zz }
        \cup { MapKey(m, k) : m \in {s_alias, s_vars, s_env}, k \in CliNames }

\* the maps a config file holds at first: nothing, or a
CliMaps == { EmptyMap, [k \in {Name(1)} |-> <<"w">>] }

InitConfig ==
    /\ pc = "cli"
    /\ interactive = TRUE
    /\ editor = None
    /\ alias \in CliMaps
    /\ vars \in CliMaps
    /\ env \in CliMaps
    /\ argv = Unused /\ stdout = <<>>
    /\ apps = EmptyMap /\ defs = EmptyMap /\ atty = FALSE
    /\ start_key = Unused /\ chain = Unused /\ current = Unused
    /\ parent = Unused /\ child = Unused
    /\ text = Unused /\ current_text = Unused /\ new_text = Unused /\ passes = 0
    /\ query = Unused /\ frames = Unused /\ parts = Unused
    /\ NoLaunch
    /\ result = NoResult

\* `config set <key> <value>`
ConfigSet ==
    /\ pc = "cli"
    /\ \E key \in CliKeys, value \in CliValues :
           LET r == ConfigSetRun(Cfg, key, value)
           IN  /\ WriteConfig(r.cfg)
               /\ result' = r.result
               /\ argv' = Argv("config set", key, value)
               /\ stdout' = <<>>
    /\ UNCHANGED <<pc, launchVars, indexVars, aliasVars, sandVars, expVars,
                   resVars>>

\* `config get <key>`
ConfigGet ==
    /\ pc = "cli"
    /\ \E key \in CliKeys :
           LET r == ConfigGetRun(Cfg, key)
           IN  /\ stdout' = r.stdout
               /\ result' = r.result
               /\ argv' = Argv("config get", key, <<>>)
    /\ UNCHANGED <<pc, cfgVars, launchVars, indexVars, aliasVars, sandVars,
                   expVars, resVars>>

\* `alias set <alias> <value>` (main.rs 258-264)
AliasSet ==
    /\ pc = "cli"
    /\ \E k \in CliNames, value \in CliValues :
           /\ alias' = Insert(alias, k, value)
           /\ argv' = Argv("alias set", k, value)
    /\ result' = Ok(<<>>)
    /\ stdout' = <<>>
    /\ UNCHANGED <<pc, interactive, editor, vars, env, launchVars, indexVars,
                   aliasVars, sandVars, expVars, resVars>>

\* `var set <key> <value>` (main.rs 291-297)
VarSet ==
    /\ pc = "cli"
    /\ \E k \in CliNames, value \in CliValues :
           /\ vars' = Insert(vars, k, value)
           /\ argv' = Argv("var set", k, value)
    /\ result' = Ok(<<>>)
    /\ stdout' = <<>>
    /\ UNCHANGED <<pc, interactive, editor, alias, env, launchVars, indexVars,
                   aliasVars, sandVars, expVars, resVars>>

NextConfig == ConfigSet \/ ConfigGet \/ AliasSet \/ VarSet

SpecConfig == InitConfig /\ [][NextConfig]_vars_all

\* C17: a run of `config set` with the key alias.K, vars.K or env.K and the
\* value V succeeds and leaves the config with K set to V in that map,
\* whether K was set or not; a run of `config get` with the same key right
\* after it prints V; and `alias set K V` and `var set K V` leave the alias
\* and the vars map the same way.
C17_ConfigSetSets ==
    [][\A K \in CliNames, V \in CliValues :
          /\ argv' = Argv("config set", MapKey(s_alias, K), V) =>
                 (result' = Ok(<<>>) /\ alias' = Insert(alias, K, V))
          /\ argv' = Argv("config set", MapKey(s_vars, K), V) =>
                 (result' = Ok(<<>>) /\ vars' = Insert(vars, K, V))
          /\ argv' = Argv("config set", MapKey(s_env, K), V) =>
                 (result' = Ok(<<>>) /\ env' = Insert(env, K, V))
          /\ \A m \in {s_alias, s_vars, s_env} :
                 (/\ argv = Argv("config set", MapKey(m, K), V)
                  /\ argv' = Argv("config get", MapKey(m, K), <<>>)) =>
                     stdout' = <<V>>
          /\ argv' = Argv("alias set", K, V) =>
                 (result' = Ok(<<>>) /\ alias' = Insert(alias, K, V))
          /\ argv' = Argv("var set", K, V) =>
                 (result' = Ok(<<>>) /\ vars' = Insert(vars, K, V))]_vars_all

-----------------------------------------------------------------------------
(* The operations together: any one of them, on any of its inputs. *)

Init ==
    InitAlias \/ InitSandwich \/ InitExpand \/ InitFind \/ InitResolve
        \/ InitLaunch \/ InitConfig

Next ==
    NextAlias \/ NextSandwich \/ NextExpand \/ NextFind \/ NextLaunch
        \/ NextConfig

Spec == Init /\ [][Next]_vars_all

=============================================================================
